---- MODULE Spec2Model ----
(***************************************************************************)
(* Model of edir.py: a one-shot batch tool that creates, updates, archives *)
(* and deletes eDirectory users over LDAP.                                 *)
(*                                                                         *)
(* Strings are modelled as sequences of tokens (a token is a TLA+ string), *)
(* Python's "+" is \o, s[1:] is PyTail, s[0:-4] is DropLast4 and "p in s"  *)
(* is Contains.  Usernames and D-numbers are spelled one character per     *)
(* token because the code slices them; separators of distinguished names   *)
(* are tokens of their own so that the directory can split a DN into its   *)
(* RDN and its parent.                                                     *)
(*                                                                         *)
(* The directory is a function from DN to entry; an entry is a function    *)
(* from the names of the attributes it has to their non-empty value sets.  *)
(* Every handler is an operator that runs the whole function body on a     *)
(* context [dir, calls, http, mails] and yields the final context, the     *)
(* returned result and whether an exception escaped to main.               *)
(***************************************************************************)
EXTENDS Naturals, Sequences, FiniteSets, TLC

(***************************************************************************)
(* Bounds of the model.                                                    *)
(***************************************************************************)
\* rows of the input batch
MaxBatch == 2
\* failing external calls (LDAP, HTTP, SMTP) per action
MaxFaults == 1
\* parameters of one request that may be blank at once
MaxBlank == 1
\* characters of a username handed to getUserType and buildDN
MaxName == 7

(***************************************************************************)
(* Python string operations.                                               *)
(***************************************************************************)
EMPTY == <<>>

PyTail(s) == IF Len(s) = 0 THEN EMPTY ELSE Tail(s)

DropLast4(s) == IF Len(s) <= 4 THEN EMPTY ELSE SubSeq(s, 1, Len(s) - 4)

Contains(p, s) == \E i \in 1..(Len(s) + 1) :
                     /\ i + Len(p) - 1 <= Len(s)
                     /\ SubSeq(s, i, i + Len(p) - 1) = p

(***************************************************************************)
(* settings.py, with the example values its comments give.  The example of *)
(* EMPOU repeats the container of the guests; the employees are given a    *)
(* container of their own here.                                            *)
(***************************************************************************)
baseDN == <<"o=DA">>
MAILDOMAIN == <<"@domain.edu">>
STUPATTERN == <<"_">>
GSTPATTERN == <<"g", "s", "t">>
ARUBAPATTERN == <<"Aruba-User-Role">>
STUSERVER == <<"stufileserver">>
EMPSERVER == <<"empfileserver">>
SHAREOU == <<"_PERSONAL", ",", "ou=Servers", ",", "o=DA">>
STUDENTOU == <<",", "ou=Students", ",", "o=DA">>
GUESTOU == <<",", "ou=Visitors", ",", "o=DA">>
EMPOU == <<",", "ou=Employees", ",", "o=DA">>
DEPGROUPOU == <<"_DEPARTMENT", ",", "ou=Departments", ",", "o=DA">>
GeneralMacUsersOU == <<",", "ou=Resources", ",", "o=DA">>
StuGeneralMacUsers == <<"Stu_GeneralMac_Users">>
GuestGeneralMacUsers == <<"Guest_GeneralMac_Users">>
EmpGeneralMacUsers == <<"Emp_GeneralMac_Users">>
EmpGeneralWSUsers == <<"Emp_GeneralWS_Users">>
FROM == <<"user@server.domain.edu">>
TO == <<"user@domain.edu">>

\* getUserType with the guest rule tried first
getUserTypeGuestFirst(username) ==
    IF GSTPATTERN = DropLast4(username) THEN "GST"
    ELSE IF Contains(STUPATTERN, username) THEN "STU"
    ELSE "EMP"

(***************************************************************************)
(* Pure helpers of edir.py.                                                *)
(***************************************************************************)
getUserType(username) ==
    IF Contains(STUPATTERN, username) THEN "STU"
    ELSE IF GSTPATTERN = DropLast4(username) THEN "GST"
    ELSE "EMP"

buildDN(username) ==
    LET userType == getUserType(username)
    IN  IF userType = "STU" THEN <<"cn=">> \o username \o STUDENTOU
        ELSE IF userType = "GST" THEN <<"cn=">> \o username \o GUESTOU
        ELSE <<"cn=">> \o username \o EMPOU

\* the primOU -> department group dictionary
deptGroups ==
    [k \in { <<"Art">>, <<"History">>, <<"Art History">>, <<"Chemistry">>,
             <<"Cinema">>, <<"Classical Studies">>, <<"Human Resources">>,
             <<"Information Technology Services">>, <<"Theatre">> } |->
        CASE k = <<"Art History">> -> <<"ArtHistory">>
          [] k = <<"Classical Studies">> -> <<"Classics">>
          [] k = <<"Human Resources">> -> <<"HumanResources">>
          [] k = <<"Information Technology Services">> -> <<"ITS">>
          [] OTHER -> k]

\* None is the empty string here: both are falsy where the code tests it
lookupGroup(ou) ==
    IF ou \in DOMAIN deptGroups
    THEN <<"cn=">> \o deptGroups[ou] \o DEPGROUPOU
    ELSE EMPTY

\* the *GeneralMac_Users group name of a user type
GeneralMacGroupName(userType) ==
    IF userType = "STU" THEN StuGeneralMacUsers
    ELSE IF userType = "GST" THEN GuestGeneralMacUsers
    ELSE EmpGeneralMacUsers

(***************************************************************************)
(* The directory (the LDAP server as python-ldap shows it to the code).    *)
(* Every call is logged; call number k of an action raises ldap.LDAPError  *)
(* when the fault set F of the action holds <<"ldap", k>>, and otherwise   *)
(* when the directory itself refuses it (no such object, entry already     *)
(* exists, attribute value already there or missing).  References held in  *)
(* DN-valued attributes of other entries are not maintained on rename or   *)
(* delete.  unbind_s is logged and taken never to fail.                    *)
(***************************************************************************)
AttrOf(e, a) == IF a \in DOMAIN e THEN e[a] ELSE {}

Mod(op, attr, val) == [op |-> op, attr |-> attr, vals |-> {val}]

\* one call as a spy on the connection sees it; hits: entries a search returned
LogEntry(op, dn, arg, sup, mods, ok, hits) ==
    [op |-> op, dn |-> dn, arg |-> arg, sup |-> sup, mods |-> mods, ok |-> ok,
     hits |-> hits]

Logged(c, F, op, dn, arg, sup, mods, ok, dir) ==
    [c EXCEPT !.calls = Append(@, LogEntry(op, dn, arg, sup, mods, ok, 0)),
              !.dir = dir]

Faulted(c, F) == <<"ldap", Len(c.calls) + 1>> \in F

\* position of the first separator of a DN, 0 when it has none
RECURSIVE FirstComma(_, _)
FirstComma(dn, i) ==
    IF i > Len(dn) THEN 0
    ELSE IF dn[i] = "," THEN i
    ELSE FirstComma(dn, i + 1)

ParentOf(dn) ==
    LET k == FirstComma(dn, 1)
    IN  IF k = 0 THEN EMPTY ELSE SubSeq(dn, k + 1, Len(dn))

RdnOf(dn) ==
    LET k == FirstComma(dn, 1)
    IN  IF k = 0 THEN dn ELSE SubSeq(dn, 1, k - 1)

\* the value of an RDN "cn=<value>"
RdnValue(rdn) == PyTail(rdn)

SetAttr(e, a, vals) ==
    IF vals = {} THEN [x \in DOMAIN e \ {a} |-> e[x]]
    ELSE [x \in DOMAIN e \cup {a} |-> IF x = a THEN vals ELSE e[x]]

\* one modification of modify_s; ok is FALSE when the directory refuses it
ApplyMod(e, m) ==
    CASE m.op = "ADD" ->
            [ok |-> m.vals \cap AttrOf(e, m.attr) = {},
             e |-> SetAttr(e, m.attr, AttrOf(e, m.attr) \cup m.vals)]
      [] m.op = "DELETE" ->
            [ok |-> m.vals \subseteq AttrOf(e, m.attr),
             e |-> SetAttr(e, m.attr, AttrOf(e, m.attr) \ m.vals)]
      [] OTHER -> [ok |-> TRUE, e |-> SetAttr(e, m.attr, m.vals)]

\* the value of an expression computed once, as a Python local holds it:
\* The({ body : x \in {e} }) is body with x standing for the value of e
The(S) == CHOOSE v \in S : TRUE

RECURSIVE ApplyMods(_, _)
ApplyMods(e, mods) ==
    IF mods = <<>> THEN [ok |-> TRUE, e |-> e]
    ELSE The({ IF ~r.ok THEN r ELSE ApplyMods(r.e, Tail(mods))
               : r \in {ApplyMod(e, Head(mods))} })

\* the entry that add_s stores for an attribute list
EntryOf(attrs) ==
    The({ [a \in {l[i].attr : i \in DOMAIN l} |->
              UNION {l[i].vals : i \in {j \in DOMAIN l : l[j].attr = a}}]
          : l \in {attrs} })

DirPut(dir, dn, e) == [x \in DOMAIN dir \cup {dn} |-> IF x = dn THEN e ELSE dir[x]]

DirDel(dir, dn) == [x \in DOMAIN dir \ {dn} |-> dir[x]]

\* l.simple_bind_s
simple_bind_s(c, F) ==
    LET ok == ~Faulted(c, F)
    IN  [c |-> Logged(c, F, "bind", EMPTY, EMPTY, EMPTY, <<>>, ok, c.dir), ok |-> ok]

\* l.search_s(baseDN, SCOPE_SUBTREE, "cn=" + cn, ...): the DNs that match
search_s(c, F, cn) ==
    The({ LET ok == ~Faulted(c, F)
          IN  [c |-> [c EXCEPT !.calls = Append(@,
                         LogEntry("search", baseDN, <<"cn=">> \o cn, EMPTY, <<>>, ok,
                                  IF ok THEN Cardinality(hits) ELSE 0))],
               ok |-> ok,
               res |-> IF ok THEN hits ELSE {}]
          : hits \in {{dn \in DOMAIN c.dir : cn \in AttrOf(c.dir[dn], "cn")}} })

\* l.add_s(dn, ldif)
add_s(c, F, dn, attrs) ==
    The({ LET ok == ~Faulted(c, F) /\ dn \notin DOMAIN c.dir
          IN  [c |-> Logged(c, F, "add", dn, EMPTY, EMPTY, l, ok,
                            IF ok THEN DirPut(c.dir, dn, EntryOf(l)) ELSE c.dir),
               ok |-> ok]
          : l \in {attrs} })

\* l.modify_s(dn, mod_attrs): all modifications or none
modify_s(c, F, dn, mods) ==
    The({ The({ LET ok == ~Faulted(c, F) /\ r.ok
                IN  [c |-> Logged(c, F, "modify", dn, EMPTY, EMPTY, l, ok,
                                  IF ok THEN DirPut(c.dir, dn, r.e) ELSE c.dir),
                     ok |-> ok]
                : r \in {IF dn \in DOMAIN c.dir THEN ApplyMods(c.dir[dn], l)
                         ELSE [ok |-> FALSE, e |-> <<>>]} })
          : l \in {mods} })

\* l.rename_s(dn, newrdn, newsuperior) with delold = 1; newsuperior EMPTY is None
rename_s(c, F, dn, newrdn, newsuperior) ==
    The({ LET ok == /\ ~Faulted(c, F)
                    /\ dn \in DOMAIN c.dir
                    /\ (newdn = dn \/ newdn \notin DOMAIN c.dir)
              e == c.dir[dn]
              e1 == SetAttr(e, "cn", (AttrOf(e, "cn") \ {RdnValue(RdnOf(dn))})
                                       \cup {RdnValue(newrdn)})
          IN  [c |-> Logged(c, F, "rename", dn, newrdn, newsuperior, <<>>, ok,
                            IF ok THEN DirPut(DirDel(c.dir, dn), newdn, e1)
                            ELSE c.dir),
               ok |-> ok]
          : newdn \in {newrdn \o <<",">> \o (IF newsuperior = EMPTY THEN ParentOf(dn)
                                             ELSE newsuperior)} })

\* l.delete_s(dn)
delete_s(c, F, dn) ==
    LET ok == ~Faulted(c, F) /\ dn \in DOMAIN c.dir
    IN  [c |-> Logged(c, F, "delete", dn, EMPTY, EMPTY, <<>>, ok,
                      IF ok THEN DirDel(c.dir, dn) ELSE c.dir),
         ok |-> ok]

\* l.unbind_s()
unbind_s(c, F) == Logged(c, F, "unbind", EMPTY, EMPTY, EMPTY, <<>>, TRUE, c.dir)

(***************************************************************************)
(* Helpers of edir.py that talk to the outside.                            *)
(***************************************************************************)
IsError(result) == result # EMPTY /\ Head(result) = "ERROR"

IsSuccess(result) == result # EMPTY /\ Head(result) = "SUCCESS"

\* a return that reports a notification that could not be sent as the result
ReturnSendFailure(c, result) ==
    [c |-> c,
     result |-> IF \E k \in 1..Len(c.mails) : ~c.mails[k].sent
                THEN <<"ERROR", ": Could not send the notification">>
                ELSE result,
     crashed |-> FALSE]

\* how a handler ends: it returns result, or an exception leaves it
Return(c, result) == [c |-> c, result |-> result, crashed |-> FALSE]

Raise(c) == [c |-> c, result |-> EMPTY, crashed |-> TRUE]

\* ldapConnect that returns the connection whether the bind failed or not
ldapConnectUnchecked(c, F) == [c |-> simple_bind_s(c, F).c, ok |-> TRUE]

\* ok is FALSE where the code gets False instead of a connection
ldapConnect(c, F) == simple_bind_s(c, F)

\* findUser that searches and answers True whatever the search returned
findUserAssumed(c, F, username) ==
    The({ [c |-> s.c, exc |-> ~s.ok, found |-> TRUE]
          : s \in {search_s(c, F, username)} })

\* exc: after a failed search ldap_result is unbound and len() raises
findUser(c, F, username) ==
    The({ [c |-> s.c, exc |-> ~s.ok, found |-> s.ok /\ Cardinality(s.res) # 0]
          : s \in {search_s(c, F, username)} })

\* the values of attribute attr of the first entry a search returned
FirstHit(s, attr) ==
    IF s.res = {} THEN {}
    ELSE AttrOf(s.c.dir[CHOOSE dn \in s.res : TRUE], attr)

\* userDisabled that searches and answers True whatever the entry says
userDisabledAssumed(c, F, username) ==
    The({ [c |-> s.c, exc |-> ~s.ok, disabled |-> TRUE]
          : s \in {search_s(c, F, username)} })

\* exc: ldap_result unbound, no first hit, or no loginDisabled attribute
userDisabled(c, F, username) ==
    The({ The({ [c |-> s.c,
                 exc |-> ~s.ok \/ vals = {},
                 disabled |-> vals # {} /\ (CHOOSE v \in vals : TRUE) = <<"TRUE">>]
                : vals \in {FirstHit(s, "loginDisabled")} })
          : s \in {search_s(c, F, username)} })

\* the LDAPError of the modify is caught here and only logged
addMember(c, F, gdn, dn) ==
    modify_s(c, F, gdn, <<Mod("ADD", "member", dn), Mod("ADD", "equivalentToMe", dn)>>).c

\* delMemberUid that looks the group up and deletes nothing
delMemberUidKeepsValue(c, F, gn, gdn, username) ==
    [c |-> search_s(c, F, gn).c, exc |-> FALSE]

\* delMemberUid that issues the delete without looking for the value
delMemberUidUnchecked(c, F, gn, gdn, username) ==
    The({ IF ~s.ok THEN [c |-> s.c, exc |-> FALSE]
          ELSE [c |-> modify_s(s.c, F, gdn,
                               <<Mod("DELETE", "memberUid", username)>>).c,
                exc |-> FALSE]
          : s \in {search_s(c, F, gn)} })

\* an LDAPError of the search or of the modify is caught here and only logged;
\* exc: the group is not found or has no memberUid attribute
delMemberUid(c, F, gn, gdn, username) ==
    The({ The({ IF ~s.ok THEN [c |-> s.c, exc |-> FALSE]
                ELSE IF vals = {} THEN [c |-> s.c, exc |-> TRUE]
                ELSE IF username \in vals
                THEN [c |-> modify_s(s.c, F, gdn,
                                     <<Mod("DELETE", "memberUid", username)>>).c,
                      exc |-> FALSE]
                ELSE [c |-> s.c, exc |-> FALSE]
                : vals \in {FirstHit(s, "memberUid")} })
          : s \in {search_s(c, F, gn)} })

\* sendMail that hands the message to the server twice
sendMailTwice(c, F, frm, to, subject, text) ==
    [c EXCEPT !.mails = @ \o << [frm |-> frm, to |-> to, subject |-> subject,
                                 text |-> text, sent |-> <<"smtp", 1>> \notin F,
                                 after |-> Len(c.calls)],
                                [frm |-> frm, to |-> to, subject |-> subject,
                                 text |-> text, sent |-> <<"smtp", 2>> \notin F,
                                 after |-> Len(c.calls)] >>]

\* never raises: a failed send is only logged; after: the number of directory
\* calls the action had made when it sent the message
sendMail(c, F, frm, to, subject, text) ==
    [c EXCEPT !.mails = Append(@, [frm |-> frm, to |-> to, subject |-> subject,
                                   text |-> text, sent |-> <<"smtp", 1>> \notin F,
                                   after |-> Len(c.calls)])]

\* urllib.urlopen(url): trigger number k of an action raises when F holds <<"http", k>>
urlopen(c, F, url) ==
    LET ok == <<"http", Len(c.http) + 1>> \notin F
    IN  [c |-> [c EXCEPT !.http = Append(@, [url |-> url, ok |-> ok])], ok |-> ok]

(***************************************************************************)
(* create                                                                  *)
(***************************************************************************)
MissingValue(item) ==
    <<"ERROR", ": Missing an expected input value for ", item, " in input file">>

EmptyParams(p) == {k \in DOMAIN p : p[k] = EMPTY}

\* the attribute dictionary of a new user
createAttrs(p, server) ==
    LET A(attr, val) == [op |-> "ADD", attr |-> attr, vals |-> {val}]
    IN  << [op |-> "ADD", attr |-> "objectclass",
            vals |-> { <<"top">>, <<"person">>, <<"organizationalPerson">>,
                       <<"inetOrgPerson">>, <<"ndsLoginProperties">>,
                       <<"posixAccount">> }],
           A("cn", p.username),
           A("userPassword", p.userPassword),
           A("description", p.description),
           A("loginDisabled", p.loginDisabled),
           A("givenName", p.givenName),
           A("fullName", p.fullName),
           A("sn", p.sn),
           A("uid", p.username),
           A("mail", p.username \o MAILDOMAIN),
           A("uidNumber", p.uidNumber),
           A("gidNumber", p.gidNumber),
           A("homeDirectory", <<"/Users/">> \o p.username),
           A("employeeType", p.employeeType),
           A("employeeNumber", PyTail(p.dNumber)),
           A("telexNumber", p.dNumber),
           A("ou", p.ou),
           A("x500UniqueIdentifier", p.x500UniqueIdentifier),
           A("businessCategory", p.businessCategory) >>
        \o (IF server # EMPTY
            THEN << A("ndsHomeDirectory",
                      <<"cn=">> \o server \o SHAREOU \o <<"#0#">> \o p.username) >>
            ELSE << >>)
        \o << A("Language", <<"ENGLISH">>),
              A("passwordUniqueRequired", <<"TRUE">>),
              A("passwordRequired", <<"TRUE">>),
              A("passwordMinimumLength", <<"5">>),
              A("passwordAllowChange", <<"TRUE">>),
              A("loginGraceRemaining", <<"3">>),
              A("loginGraceLimit", <<"3">>) >>

\* the groups of a new user, GeneralMac_Users group first
createGroups(userType, ou) ==
    IF userType = "STU" THEN << <<"cn=">> \o StuGeneralMacUsers \o GeneralMacUsersOU >>
    ELSE IF userType = "GST"
    THEN << <<"cn=">> \o GuestGeneralMacUsers \o GeneralMacUsersOU >>
    ELSE << <<"cn=">> \o EmpGeneralMacUsers \o GeneralMacUsersOU,
            <<"cn=">> \o EmpGeneralWSUsers \o GeneralMacUsersOU >>
         \o (IF lookupGroup(ou) # EMPTY THEN << lookupGroup(ou) >> ELSE << >>)

\* the group loop with the two modifies of a group exchanged
RECURSIVE createGroupLoopGroupFirst(_, _, _, _)
createGroupLoopGroupFirst(c, F, dn, groups) ==
    IF groups = << >> THEN [c |-> c, ok |-> TRUE]
    ELSE The({ The({ IF ~m.ok THEN [c |-> m.c, ok |-> FALSE]
                     ELSE createGroupLoopGroupFirst(m.c, F, dn, Tail(groups))
                     : m \in {modify_s(c1, F, dn,
                                       << Mod("ADD", "securityEquals", Head(groups)),
                                          Mod("ADD", "groupMembership", Head(groups)) >>)} })
               : c1 \in {addMember(c, F, Head(groups), dn)} })

\* for group in groups: update the user, then the group
RECURSIVE createGroupLoop(_, _, _, _)
createGroupLoop(c, F, dn, groups) ==
    IF groups = << >> THEN [c |-> c, ok |-> TRUE]
    ELSE The({ IF ~m.ok THEN [c |-> m.c, ok |-> FALSE]
               ELSE The({ createGroupLoop(c1, F, dn, Tail(groups))
                          : c1 \in {addMember(m.c, F, Head(groups), dn)} })
               : m \in {modify_s(c, F, dn,
                                 << Mod("ADD", "securityEquals", Head(groups)),
                                    Mod("ADD", "groupMembership", Head(groups)) >>)} })

\* the getspace.pl requests of a user type, in the order they are made
createUrls(userType, username, ou) ==
    LET U(host) == <<"http://", host, ".domain.edu/cgi-bin/getspace.pl?username=">>
                   \o username
    IN  IF userType = "STU"
        THEN << U("studentserver"), U("fileserver"), U("mediaserver") >>
        ELSE IF userType = "GST" THEN << >>
        ELSE << U("empserver"), U("fileserver") \o <<":">> \o ou, U("mediaserver") >>

\* the requests up to the first that raises
RECURSIVE createRequestSpace(_, _, _)
createRequestSpace(c, F, urls) ==
    IF urls = << >> THEN [c |-> c, ok |-> TRUE]
    ELSE The({ IF ~r.ok THEN r ELSE createRequestSpace(r.c, F, Tail(urls))
               : r \in {urlopen(c, F, Head(urls))} })

\* the second try block: whatever it does, result is assigned SUCCESS after it
createStorage(c, F, userType, p) ==
    The({ LET result1 == IF r.ok THEN EMPTY
                         ELSE <<"ERROR", ": Could not provision storage for the user">>
              result2 == <<"SUCCESS", ": User added to eDir">>
          IN  Return(r.c, result2)
          : r \in {createRequestSpace(c, F, createUrls(userType, p.username, p.ou))} })

\* the first try block: add the user, update the groups, disconnect
createEntry(c, F, p) ==
    LET failed == <<"ERROR", ": Could not create eDir user or update groups">>
        userType == getUserType(p.username)
        \* server is not assigned for a guest
        server == IF userType = "STU" THEN STUSERVER ELSE EMPSERVER
    IN  \* "..." / "..." in the warning for an unknown department: TypeError
        IF userType = "EMP" /\ lookupGroup(p.ou) = EMPTY THEN Raise(c)
        \* "if server:" reads the unassigned local: UnboundLocalError
        ELSE IF userType = "GST" THEN Raise(c)
        ELSE The({ The({
             IF ~a.ok THEN Return(a.c, failed)
             ELSE The({
                  IF ~g.ok THEN Return(g.c, failed)
                  ELSE The({
                       IF ~m.ok THEN Return(m.c, failed)
                       ELSE The({ createStorage(c1, F, userType, p)
                                  : c1 \in {unbind_s(m.c, F)} })
                       : m \in {modify_s(g.c, F, Head(groups),
                                         << Mod("ADD", "memberUid", p.username) >>)} })
                  : g \in {createGroupLoop(a.c, F, dn, groups)} })
             : a \in {add_s(c, F, dn, createAttrs(p, server))} })
             : dn \in {buildDN(p.username)},
               groups \in {createGroups(userType, p.ou)} })

\* createIfFree that searches and adds the user whatever the search found
createWithoutLookup(c, F, p) ==
    The({ IF f.exc THEN Raise(f.c) ELSE createEntry(f.c, F, p)
          : f \in {findUser(c, F, p.username)} })

\* on the connection: refuse a username that has an entry, else add the user
createIfFree(c, F, p) ==
    The({ IF f.exc THEN Raise(f.c)
          ELSE IF f.found THEN Return(f.c, <<"ERROR", ": username already taken!">>)
          ELSE createEntry(f.c, F, p)
          : f \in {findUser(c, F, p.username)} })

\* create with the check of the parameters moved behind the connect
createConnectFirst(c, F, item, p) ==
    The({ IF ~b.ok THEN Return(b.c, <<"ERROR", ": unable to connect to LDAP server">>)
          ELSE IF EmptyParams(p) # {} THEN Return(b.c, MissingValue(item))
          ELSE createIfFree(b.c, F, p)
          : b \in {ldapConnect(c, F)} })

\* item: the parameter the loop over locals() meets first among the empty ones
create(c, F, item, p) ==
    IF EmptyParams(p) # {} THEN Return(c, MissingValue(item))
    ELSE The({ IF ~b.ok
               THEN Return(b.c, <<"ERROR", ": unable to connect to LDAP server">>)
               ELSE createIfFree(b.c, F, p)
               : b \in {ldapConnect(c, F)} })

\* the modifications of update with the password reset as well
updateModsWithPassword(p) ==
    << [op |-> "REPLACE", attr |-> "description", vals |-> {p.description}],
       [op |-> "REPLACE", attr |-> "userPassword", vals |-> {p.description}],
       [op |-> "REPLACE", attr |-> "loginDisabled", vals |-> {p.loginDisabled}],
       Mod("ADD", "businessCategory", p.businessCategory) >>

(***************************************************************************)
(* update                                                                  *)
(***************************************************************************)
\* the modifications of the profile attributes, the new role value last
updateMods(p) ==
    << [op |-> "REPLACE", attr |-> "description", vals |-> {p.description}],
       [op |-> "REPLACE", attr |-> "loginDisabled", vals |-> {p.loginDisabled}],
       [op |-> "REPLACE", attr |-> "givenName", vals |-> {p.givenName}],
       [op |-> "REPLACE", attr |-> "fullName", vals |-> {p.fullName}],
       [op |-> "REPLACE", attr |-> "sn", vals |-> {p.sn}],
       [op |-> "REPLACE", attr |-> "uid", vals |-> {p.newusername}],
       [op |-> "REPLACE", attr |-> "mail", vals |-> {p.newusername \o MAILDOMAIN}],
       [op |-> "REPLACE", attr |-> "uidNumber", vals |-> {p.uidNumber}],
       [op |-> "REPLACE", attr |-> "gidNumber", vals |-> {p.gidNumber}],
       [op |-> "REPLACE", attr |-> "homeDirectory",
        vals |-> {<<"/Users/">> \o p.newusername}],
       [op |-> "REPLACE", attr |-> "employeeType", vals |-> {p.employeeType}],
       [op |-> "REPLACE", attr |-> "employeeNumber", vals |-> {PyTail(p.dNumber)}],
       [op |-> "REPLACE", attr |-> "telexNumber", vals |-> {p.dNumber}],
       [op |-> "REPLACE", attr |-> "ou", vals |-> {p.ou}],
       [op |-> "REPLACE", attr |-> "x500UniqueIdentifier",
        vals |-> {p.x500UniqueIdentifier}],
       Mod("ADD", "businessCategory", p.businessCategory) >>

\* for value in businessCategory: delete it when it holds the Aruba pattern
\* (the values are taken in some fixed order; every order deletes the same ones)
RECURSIVE updateDeleteRoles(_, _, _, _)
updateDeleteRoles(c, F, dn, values) ==
    IF values = {} THEN [c |-> c, ok |-> TRUE]
    ELSE The({
         The({ IF ~m.ok THEN m
               ELSE The({ updateDeleteRoles(m.c, F, dn, rest)
                          : rest \in {values \ {value}} })
               : m \in {IF Contains(ARUBAPATTERN, value)
                        THEN modify_s(c, F, dn,
                                      << Mod("DELETE", "businessCategory", value) >>)
                        ELSE [c |-> c, ok |-> TRUE]} })
         : value \in {CHOOSE v \in values : TRUE} })

\* the last try block: "rename or not, update attributes or disable"
updateAttributes(c, F, p) ==
    LET failed == <<"ERROR", ": Could not update eDir user">>
        success == <<"SUCCESS", ": User updated in eDir">>
    IN  The({
        IF ~s.ok THEN Return(s.c, failed)
        ELSE The({
             \* IndexError or KeyError: "except Exception" assigns result and goes on
             IF values = {} THEN Return(s.c, success)
             ELSE The({
                  IF ~d.ok THEN Return(d.c, failed)
                  ELSE The({
                       IF ~m.ok THEN Return(m.c, failed)
                       ELSE Return(unbind_s(m.c, F), success)
                       : m \in {modify_s(d.c, F, dn, updateMods(p))} })
                  : d \in {updateDeleteRoles(s.c, F, dn, values)} })
             : values \in {FirstHit(s, "businessCategory")} })
        : s \in {search_s(c, F, p.newusername)},
          dn \in {buildDN(p.newusername)} })

\* updateRenameTry that removes the old memberUid value before it adds the new
updateRenameRemoveFirst(c, F, p) ==
    LET failed == <<"ERROR", ": Could not rename eDir user">>
        gn == GeneralMacGroupName(getUserType(p.username))
        subject == <<"eDir user renamed: ">> \o buildDN(p.username) \o <<" to ">>
                   \o p.newusername
        text == <<"Need to rename home and other shared folders, ",
                  "as well as ndsHomeDirectory attribute!">>
        Mailed(cc) == [done |-> FALSE,
                       ret |-> Return(sendMail(cc, F, FROM, TO, subject, text), EMPTY)]
        Done(ret) == [done |-> TRUE, ret |-> ret]
    IN  The({
        IF f.exc THEN Mailed(f.c)
        ELSE IF f.found THEN Done(Return(f.c, <<"ERROR", ": username already taken!">>))
        ELSE The({
             IF ~r.ok THEN Done(Return(r.c, failed))
             ELSE The({
                  The({ IF ~m.ok THEN Done(Return(m.c, failed)) ELSE Mailed(m.c)
                        : m \in {modify_s(d.c, F, gdn,
                                          << Mod("ADD", "memberUid", p.newusername) >>)} })
                  : d \in {delMemberUid(r.c, F, gn, gdn, p.username)} })
             : r \in {rename_s(f.c, F, dn, <<"cn=">> \o p.newusername, EMPTY)} })
        : f \in {findUser(c, F, p.newusername)},
          dn \in {buildDN(p.username)},
          gdn \in {<<"cn=">> \o gn \o GeneralMacUsersOU} })

\* the try block of the rename and the mail after it; done: the handler
\* returns from inside it
updateRenameTry(c, F, p) ==
    LET failed == <<"ERROR", ": Could not rename eDir user">>
        gn == GeneralMacGroupName(getUserType(p.username))
        subject == <<"eDir user renamed: ">> \o buildDN(p.username) \o <<" to ">>
                   \o p.newusername
        text == <<"Need to rename home and other shared folders, ",
                  "as well as ndsHomeDirectory attribute!">>
        Mailed(cc) == [done |-> FALSE,
                       ret |-> Return(sendMail(cc, F, FROM, TO, subject, text), EMPTY)]
        Done(ret) == [done |-> TRUE, ret |-> ret]
    IN  The({
        \* the exception of findUser is caught by "except Exception", which goes on
        IF f.exc THEN Mailed(f.c)
        ELSE IF f.found THEN Done(Return(f.c, <<"ERROR", ": username already taken!">>))
        ELSE The({
             IF ~r.ok THEN Done(Return(r.c, failed))
             ELSE The({
                  IF ~m.ok THEN Done(Return(m.c, failed))
                  ELSE The({ Mailed(d.c)
                             : d \in {delMemberUid(m.c, F, gn, gdn, p.username)} })
                  : m \in {modify_s(r.c, F, gdn,
                                    << Mod("ADD", "memberUid", p.newusername) >>)} })
             : r \in {rename_s(f.c, F, dn, <<"cn=">> \o p.newusername, EMPTY)} })
        : f \in {findUser(c, F, p.newusername)},
          dn \in {buildDN(p.username)},
          gdn \in {<<"cn=">> \o gn \o GeneralMacUsersOU} })

\* updateRename without the comparison of the two user types
updateRenameAcrossTypes(c, F, p) == updateRenameTry(c, F, p)

\* the rename branch
updateRename(c, F, p) ==
    IF getUserType(p.username) # getUserType(p.newusername)
    THEN [done |-> TRUE,
          ret |-> Return(c, <<"ERROR", ": can't rename users across different OUs">>)]
    ELSE updateRenameTry(c, F, p)

update(c, F, item, p) ==
    IF EmptyParams(p) # {} THEN Return(c, MissingValue(item))
    ELSE The({
         IF ~b.ok THEN Return(b.c, <<"ERROR", ": unable to connect to LDAP server">>)
         ELSE The({
              IF f.exc THEN Raise(f.c)
              ELSE IF ~f.found THEN Return(f.c, <<"ERROR", ": user could not be found!">>)
              ELSE IF p.username # p.newusername
              THEN The({ IF rn.done THEN rn.ret
                         ELSE updateAttributes(rn.ret.c, F, p)
                         : rn \in {updateRename(f.c, F, p)} })
              ELSE updateAttributes(f.c, F, p)
              : f \in {findUser(b.c, F, p.username)} })
         : b \in {ldapConnect(c, F)} })

(***************************************************************************)
(* archive                                                                 *)
(***************************************************************************)
\* the try block of archive without the refusal of the guests
archiveMoveAnyType(c, F, username) ==
    The({ IF ~r.ok THEN Return(r.c, <<"ERROR", ": Could not move eDir user">>)
          ELSE Return(unbind_s(r.c, F), <<"SUCCESS", ": User archived in eDir">>)
          : r \in {rename_s(c, F, buildDN(username), <<"cn=">> \o username,
                            IF getUserType(username) = "STU"
                            THEN <<"ou=_Archive">> \o STUDENTOU
                            ELSE <<"ou=_Archive">> \o EMPOU)} })

\* archive with one archival container for every user type
archiveMoveOneContainer(c, F, username) ==
    IF getUserType(username) = "GST"
    THEN Return(c, <<"ERROR", ": we do not archive guest accounts">>)
    ELSE The({ IF ~r.ok THEN Return(r.c, <<"ERROR", ": Could not move eDir user">>)
               ELSE Return(unbind_s(r.c, F), <<"SUCCESS", ": User archived in eDir">>)
               : r \in {rename_s(c, F, buildDN(username), <<"cn=">> \o username,
                                 <<"ou=_Archive">> \o EMPOU)} })

\* the try block of archive: move the entry to the archival container
archiveMove(c, F, username) ==
    IF getUserType(username) = "GST"
    THEN Return(c, <<"ERROR", ": we do not archive guest accounts">>)
    ELSE archiveMoveAnyType(c, F, username)

archive(c, F, username) ==
    IF username = EMPTY THEN Return(c, MissingValue("username"))
    ELSE The({
         IF ~b.ok THEN Return(b.c, <<"ERROR", ": unable to connect to LDAP server">>)
         ELSE The({
              IF f.exc THEN Raise(f.c)
              ELSE IF ~f.found
              THEN Return(f.c, <<"ERROR", ": user could not be found!">>)
              ELSE The({
                   IF u.exc THEN Raise(u.c)
                   ELSE IF ~u.disabled
                   THEN Return(u.c, <<"ERROR", ": user is not disabled!">>)
                   ELSE archiveMove(u.c, F, username)
                   : u \in {userDisabled(f.c, F, username)} })
              : f \in {findUser(b.c, F, username)} })
         : b \in {ldapConnect(c, F)} })

(***************************************************************************)
(* delete                                                                  *)
(***************************************************************************)
delete(c, F, username) ==
    LET gn == GeneralMacGroupName(getUserType(username))
        gdn == <<"cn=">> \o gn \o GeneralMacUsersOU
        subject == <<"eDir user deleted: ">> \o buildDN(username)
        text == <<"Need to deprovision home and other shared folders!">>
    IN  IF username = EMPTY THEN Return(c, MissingValue("username"))
        ELSE The({
        IF ~b.ok THEN Return(b.c, <<"ERROR", ": unable to connect to LDAP server">>)
        ELSE The({
             IF f.exc THEN Raise(f.c)
             ELSE IF ~f.found THEN Return(f.c, <<"ERROR", ": user could not be found!">>)
             ELSE The({
                  IF u.exc THEN Raise(u.c)
                  ELSE IF ~u.disabled
                  THEN Return(u.c, <<"ERROR", ": user is not disabled!">>)
                  ELSE The({
                       IF ~x.ok
                       THEN Return(x.c, <<"ERROR", ": Could not delete eDir user">>)
                       ELSE The({
                            \* an exception of delMemberUid skips the unbind
                            \* ("except Exception")
                            Return(sendMail(IF d.exc THEN d.c ELSE unbind_s(d.c, F),
                                            F, FROM, TO, subject, text),
                                   <<"SUCCESS", ": User deleted from eDir">>)
                            : d \in {delMemberUid(x.c, F, gn, gdn, username)} })
                       : x \in {delete_s(u.c, F, buildDN(username))} })
                  : u \in {userDisabled(f.c, F, username)} })
             : f \in {findUser(b.c, F, username)} })
        : b \in {ldapConnect(c, F)} })

(***************************************************************************)
(* Inputs: the rows of the batch file and the faults of the outside world. *)
(***************************************************************************)
bob == <<"b", "o", "b">>
amy == <<"a", "m", "y">>
s_1 == <<"s", "_", "1">>
gst0001 == <<"g", "s", "t", "0", "0", "0", "1">>

Usernames == {bob, amy, s_1, gst0001}

staff == <<"Aruba-User-Role", " = ", "\"staff\"">>
faculty == <<"Aruba-User-Role", " = ", "\"faculty\"">>
unrelated == <<"unrelated=1">>

TRUE_ == <<"TRUE">>
FALSE_ == <<"FALSE">>

Profile(loginDisabled, primO, businessCategory) ==
    [loginDisabled |-> loginDisabled, primO |-> primO,
     businessCategory |-> businessCategory]

Profiles == { Profile(FALSE_, <<"Art History">>, staff),
              Profile(TRUE_, <<"Art History">>, faculty),
              Profile(FALSE_, <<"Biology">>, faculty) }

\* the keys of a row other than "action"
RowFields == {"username", "newusername", "loginDisabled", "uidNumber", "gidNumber",
              "givenName", "fullName", "sn", "employeeType", "DNumber",
              "x500UniqueIdentifier", "primO", "businessCategory", "userPassword",
              "description"}

\* a row as json.load gives it, after str(); the fields in blank are ""
Row(action, username, newusername, prof, blank) ==
    LET full == [action |-> action,
                 username |-> username,
                 newusername |-> newusername,
                 loginDisabled |-> prof.loginDisabled,
                 uidNumber |-> <<"15549">>,
                 gidNumber |-> <<"15549">>,
                 givenName |-> <<"John">>,
                 fullName |-> <<"John The Testuser">>,
                 sn |-> <<"Testuser">>,
                 employeeType |-> <<"ADM">>,
                 DNumber |-> <<"D", "0", "1">>,
                 x500UniqueIdentifier |-> <<"44EFB5C72">>,
                 primO |-> prof.primO,
                 businessCategory |-> prof.businessCategory,
                 userPassword |-> <<"initial password">>,
                 description |-> <<"Create on this date or any note">>]
    IN  [k \in DOMAIN full |-> IF k \in blank THEN EMPTY ELSE full[k]]

Blanks == {B \in SUBSET RowFields : Cardinality(B) >= 1 /\ Cardinality(B) <= MaxBlank}

\* complete rows, and rows with blank fields
Rows(action, newnames) ==
    {Row(action, u, nu, prof, {}) : u \in Usernames, nu \in newnames, prof \in Profiles}

BlankRows(action) ==
    {Row(action, bob, amy, Profile(FALSE_, <<"Art">>, staff), B) : B \in Blanks}

\* the external calls a run made: the points where a fault can strike it
FaultPoints(ret) ==
    The({ {<<"ldap", k>> : k \in {i \in 1..Len(r.c.calls) : r.c.calls[i].op # "unbind"}}
          \cup {<<"http", k>> : k \in 1..Len(r.c.http)}
          \cup {<<"smtp", k>> : k \in 1..Len(r.c.mails)}
          : r \in {ret} })

\* the fault sets of at most n faults that can strike the handler Run: each
\* further fault strikes a call of the run with the faults chosen before it
RECURSIVE FaultSets(_, _)
FaultSets(Run(_), n) ==
    IF n = 0 THEN {{}}
    ELSE LET S == FaultSets(Run, n - 1)
         IN  S \cup UNION {{T \cup {x} : x \in FaultPoints(Run(T))} : T \in S}

Faults(Run(_)) == FaultSets(Run, MaxFaults)

\* the arguments main passes to create and to update
createParams(row) ==
    [username |-> row.username, loginDisabled |-> row.loginDisabled,
     uidNumber |-> row.uidNumber, gidNumber |-> row.gidNumber,
     givenName |-> row.givenName, fullName |-> row.fullName, sn |-> row.sn,
     employeeType |-> row.employeeType, dNumber |-> row.DNumber,
     x500UniqueIdentifier |-> row.x500UniqueIdentifier, ou |-> row.primO,
     businessCategory |-> row.businessCategory, userPassword |-> row.userPassword,
     description |-> row.description]

updateParams(row) ==
    [username |-> row.username, newusername |-> row.newusername,
     loginDisabled |-> row.loginDisabled,
     uidNumber |-> row.uidNumber, gidNumber |-> row.gidNumber,
     givenName |-> row.givenName, fullName |-> row.fullName, sn |-> row.sn,
     employeeType |-> row.employeeType, dNumber |-> row.DNumber,
     x500UniqueIdentifier |-> row.x500UniqueIdentifier, ou |-> row.primO,
     businessCategory |-> row.businessCategory, description |-> row.description]

\* what the loop over locals() may name: any empty parameter
Items(p) == IF EmptyParams(p) = {} THEN {"-"} ELSE EmptyParams(p)

(***************************************************************************)
(* The directory before the run: the groups, and users made earlier.       *)
(***************************************************************************)
GroupEntry(cn) ==
    [a \in {"objectclass", "cn"} |->
        IF a = "cn" THEN {cn} ELSE { <<"top">>, <<"groupOfNames">> }]

GroupDirectory ==
    LET general == {StuGeneralMacUsers, GuestGeneralMacUsers, EmpGeneralMacUsers,
                    EmpGeneralWSUsers}
        dns == {<<"cn=">> \o g \o GeneralMacUsersOU : g \in general}
               \cup {lookupGroup(k) : k \in DOMAIN deptGroups}
    IN  [dn \in dns |-> GroupEntry(RdnValue(RdnOf(dn)))]

\* a user made earlier, as create leaves one (for a guest: made by hand,
\* without home directory pointer), with extra businessCategory values
WithUser(d, username, prof, extra) ==
    LET userType == getUserType(username)
        server == IF userType = "STU" THEN STUSERVER
                  ELSE IF userType = "GST" THEN EMPTY ELSE EMPSERVER
        c0 == [dir |-> d, calls |-> << >>, http |-> << >>, mails |-> << >>]
    IN  The({ The({ The({ The({
            DirPut(m.c.dir, dn,
                   SetAttr(m.c.dir[dn], "businessCategory",
                           m.c.dir[dn]["businessCategory"] \cup extra))
            : m \in {modify_s(g.c, {}, Head(groups),
                              << Mod("ADD", "memberUid", username) >>)} })
            : g \in {createGroupLoop(a.c, {}, dn, groups)} })
            : a \in {add_s(c0, {}, dn, createAttrs(p, server))} })
            : p \in {createParams(Row("create", username, username, prof, {}))},
              dn \in {buildDN(username)},
              groups \in {createGroups(userType, prof.primO)} })

InitDirectories ==
    { GroupDirectory,
      WithUser(GroupDirectory, gst0001, Profile(FALSE_, <<"Art">>, staff), {}),
      WithUser(GroupDirectory, gst0001, Profile(TRUE_, <<"Art">>, staff), {}),
      WithUser(GroupDirectory, amy, Profile(TRUE_, <<"Art">>, staff), {unrelated}),
      WithUser(WithUser(GroupDirectory, s_1, Profile(TRUE_, <<"Art">>, faculty), {}),
               bob, Profile(FALSE_, <<"Art">>, staff), {unrelated, faculty}) }

(***************************************************************************)
(* The run: main reads the rows one by one and writes one record for each. *)
(***************************************************************************)
VARIABLES
    dir,        \* the directory
    rowsRead,   \* rows of the batch taken from the reader so far
    written,    \* records written to the output file so far
    aborted,    \* an exception reached main: the loop is over
    sessions,   \* connections bound and never unbound
    last,       \* the row in hand, what its handler did and the record written
    created,    \* the user the row before this one created, "" when it made none
    connectFailed,  \* the row before this one could not connect
    classified  \* a username and what getUserType and buildDN returned for it

vars == <<dir, rowsRead, written, aborted, sessions, last, created, connectFailed,
          classified>>

\* no username handed to getUserType or buildDN
NoName == [username |-> EMPTY, userType |-> "", dn |-> EMPTY]

NoRow == Row("none", EMPTY, EMPTY, Profile(EMPTY, EMPTY, EMPTY), {})

\* no row in hand: result = '' at the head of the loop
NoLast == [row |-> NoRow, calls |-> << >>, http |-> << >>, mails |-> << >>,
           result |-> EMPTY, crashed |-> FALSE, record |-> << >>]

Init ==
    /\ dir \in InitDirectories
    /\ rowsRead = 0
    /\ written = 0
    /\ aborted = FALSE
    /\ sessions = 0
    /\ last = NoLast
    /\ created = EMPTY
    /\ connectFailed = FALSE
    /\ classified = NoName

\* connections of a call log that were bound and not unbound
Unreleased(calls) ==
    Cardinality({i \in 1..Len(calls) : calls[i].op = "bind" /\ calls[i].ok})
    - Cardinality({i \in 1..Len(calls) : calls[i].op = "unbind"})

Context == [dir |-> dir, calls |-> << >>, http |-> << >>, mails |-> << >>]

\* the reader has a next row and main is at the head of the loop
AtRow == ~aborted /\ last = NoLast /\ rowsRead < MaxBatch

\* the body of the loop of main: ret is what the handler of the row did;
\* the record is written unless an exception left the handler
mainRow(row, ret) ==
    /\ UNCHANGED <<created, connectFailed, classified>>
    /\ rowsRead' = rowsRead + 1
    /\ dir' = ret.c.dir
    /\ aborted' = ret.crashed
    /\ written' = IF ret.crashed THEN written ELSE written + 1
    /\ sessions' = sessions + Unreleased(ret.c.calls)
    /\ last' = [row |-> row, calls |-> ret.c.calls, http |-> ret.c.http,
                mails |-> ret.c.mails, result |-> ret.result,
                crashed |-> ret.crashed,
                record |-> IF ret.crashed THEN << >>
                           ELSE << row.action, row.username, ret.result >>]

Create ==
    /\ AtRow
    /\ \/ \E row \in Rows("create", {EMPTY}) :
          \E r \in {[row EXCEPT !.newusername = row.username]} :
          \E p \in {createParams(r)} :
             LET Run(F) == create(Context, F, "-", p)
             IN  \E F \in Faults(Run) : \E ret \in {Run(F)} : mainRow(r, ret)
       \/ \E row \in BlankRows("create") : \E p \in {createParams(row)} :
          \E item \in Items(p) : \E ret \in {create(Context, {}, item, p)} :
             mainRow(row, ret)

Update ==
    /\ AtRow
    /\ \/ \E row \in Rows("update", Usernames) : \E p \in {updateParams(row)} :
             LET Run(F) == update(Context, F, "-", p)
             IN  \E F \in Faults(Run) : \E ret \in {Run(F)} : mainRow(row, ret)
       \/ \E row \in BlankRows("update") : \E p \in {updateParams(row)} :
          \E item \in Items(p) : \E ret \in {update(Context, {}, item, p)} :
             mainRow(row, ret)

Archive ==
    /\ AtRow
    /\ \E u \in Usernames \cup {EMPTY} :
          \E row \in {Row("archive", u, u, Profile(FALSE_, <<"Art">>, staff), {})} :
             LET Run(F) == archive(Context, F, u)
             IN  \E F \in Faults(Run) : \E ret \in {Run(F)} : mainRow(row, ret)

Delete ==
    /\ AtRow
    /\ \E u \in Usernames \cup {EMPTY} :
          \E row \in {Row("delete", u, u, Profile(FALSE_, <<"Art">>, staff), {})} :
             LET Run(F) == delete(Context, F, u)
             IN  \E F \in Faults(Run) : \E ret \in {Run(F)} : mainRow(row, ret)

\* main handing a row of an unrecognized action to delete
UnrecognizedDeletes ==
    /\ AtRow
    /\ \E u \in Usernames :
          \E row \in {Row("rename", u, u, Profile(FALSE_, <<"Art">>, staff), {})} :
          \E ret \in {delete(Context, {}, u)} :
             mainRow(row, ret)

Unrecognized ==
    /\ AtRow
    /\ \E u \in Usernames :
          \E row \in {Row("rename", u, u, Profile(FALSE_, <<"Art">>, staff), {})} :
          \E ret \in {Return(Context, <<"ERROR", ": Unrecognized action">>)} :
             mainRow(row, ret)

\* back to the head of the loop for the next row
NextRow ==
    /\ ~aborted
    /\ last # NoLast
    /\ rowsRead < MaxBatch
    /\ last' = NoLast
    /\ created' = IF last.row.action = "create" /\ IsSuccess(last.result)
                  THEN last.row.username ELSE EMPTY
    /\ connectFailed' = (last.result = <<"ERROR", ": unable to connect to LDAP server">>)
    /\ UNCHANGED <<dir, rowsRead, written, aborted, sessions, classified>>

Next == Create \/ Update \/ Archive \/ Delete \/ Unrecognized \/ NextRow

Spec == Init /\ [][Next]_vars

(***************************************************************************)
(* The classification of usernames: getUserType and buildDN applied to     *)
(* every username of up to MaxName characters.                             *)
(***************************************************************************)
\* the characters of the two patterns
NameChars == {"g", "s", "t", "_"}

Names == UNION {[1..n -> NameChars] : n \in 0..MaxName}

InitNames ==
    /\ dir = GroupDirectory
    /\ rowsRead = 0
    /\ written = 0
    /\ aborted = FALSE
    /\ sessions = 0
    /\ last = NoLast
    /\ created = EMPTY
    /\ connectFailed = FALSE
    /\ \E u \in Names : classified = [NoName EXCEPT !.username = u]

GetUserType ==
    /\ classified.userType = ""
    /\ classified' = [classified EXCEPT !.userType = getUserType(classified.username)]
    /\ UNCHANGED <<dir, rowsRead, written, aborted, sessions, last, created,
                   connectFailed>>

BuildDN ==
    /\ classified.dn = EMPTY
    /\ classified' = [classified EXCEPT !.dn = buildDN(classified.username)]
    /\ UNCHANGED <<dir, rowsRead, written, aborted, sessions, last, created,
                   connectFailed>>

NextNames == GetUserType \/ BuildDN

SpecNames == InitNames /\ [][NextNames]_vars

(***************************************************************************)
(* Vocabulary of the properties: what the row in hand was and what its     *)
(* handler was seen to do.                                                 *)
(***************************************************************************)
Calls(op) == {i \in 1..Len(last.calls) : last.calls[i].op = op}

MutationCalls == Calls("add") \cup Calls("modify") \cup Calls("rename")
                 \cup Calls("delete")

AllCallsOk == \A i \in 1..Len(last.calls) : last.calls[i].ok

\* the modify calls that apply operation op to attribute attr with value val
ModifiesOf(op, attr, val) ==
    {i \in Calls("modify") :
        \E k \in 1..Len(last.calls[i].mods) :
           last.calls[i].mods[k] = [op |-> op, attr |-> attr, vals |-> {val}]}

\* the modify calls that apply operation op to attribute attr
ModifiesAttr(op, attr) ==
    {i \in Calls("modify") :
        \E k \in 1..Len(last.calls[i].mods) :
           last.calls[i].mods[k].op = op /\ last.calls[i].mods[k].attr = attr}

\* the parameters the handler of a row uses
UsedParams(row) ==
    IF row.action = "create" THEN createParams(row)
    ELSE IF row.action = "update" THEN updateParams(row)
    ELSE [username |-> row.username]

ValidRow(action) ==
    last.row.action = action /\ EmptyParams(UsedParams(last.row)) = {}

\* the handler connected and its first search, for the username, found nothing
UsernameFree ==
    /\ Len(last.calls) >= 2
    /\ last.calls[1].op = "bind" /\ last.calls[1].ok
    /\ last.calls[2].op = "search" /\ last.calls[2].ok /\ last.calls[2].hits = 0

\* the handler connected and its first search found the user
UsernameFound ==
    /\ Len(last.calls) >= 2
    /\ last.calls[1].op = "bind" /\ last.calls[1].ok
    /\ last.calls[2].op = "search" /\ last.calls[2].ok /\ last.calls[2].hits > 0

\* the attribute list of the add call number i holds attr with the one value val
AddHas(i, attr, val) ==
    \E k \in 1..Len(last.calls[i].mods) :
       last.calls[i].mods[k].attr = attr /\ last.calls[i].mods[k].vals = {val}

AddHasAttr(i, attr) ==
    \E k \in 1..Len(last.calls[i].mods) : last.calls[i].mods[k].attr = attr

\* the groups whose "member" attribute the handler asked to extend
GroupsJoined == {last.calls[i].dn : i \in ModifiesAttr("ADD", "member")}

(***************************************************************************)
(* The properties.                                                         *)
(***************************************************************************)
\* C1: every row taken from the batch has its outcome record written and no
\* failure inside an action ends the loop before the batch is through: the
\* records written are as many as the rows read and the run is never aborted.
C1_EveryRowRecorded == written = rowsRead /\ ~aborted

\* C2: a create, update, archive or delete row in which a parameter the action
\* uses is the empty string yields an error result that names one of the empty
\* parameters, and its handler makes no directory call at all.
C2_EmptyFieldRejected ==
    (/\ last.row.action \in {"create", "update", "archive", "delete"}
     /\ EmptyParams(UsedParams(last.row)) # {})
    => /\ ~last.crashed
       /\ IsError(last.result)
       /\ \E item \in EmptyParams(UsedParams(last.row)) :
             last.result = MissingValue(item)
       /\ last.calls = << >>

C2_Witness ==
    /\ last.row.action = "update"
    /\ last.row.primO = EMPTY
    /\ last.result = MissingValue("ou")

\* C3: a create row with every field given, for a username without an entry,
\* all of whose directory calls succeed, issues exactly one add call, whose
\* attributes hold mail = username + mail domain, homeDirectory = "/Users/" +
\* username and employeeNumber = DNumber without its first character, and the
\* result is "SUCCESS: User added to eDir".
C3_CreateAddsEntry ==
    (ValidRow("create") /\ UsernameFree /\ AllCallsOk)
    => /\ Cardinality(Calls("add")) = 1
       /\ \A i \in Calls("add") :
             /\ AddHas(i, "mail", last.row.username \o MAILDOMAIN)
             /\ AddHas(i, "homeDirectory", <<"/Users/">> \o last.row.username)
             /\ AddHas(i, "employeeNumber", PyTail(last.row.DNumber))
       /\ last.result = <<"SUCCESS", ": User added to eDir">>

\* C4: when a storage request of a create fails after all its directory calls
\* succeeded, the result is the storage provisioning error, the new entry stays
\* in the directory and no delete call is issued.
C4_ProvisioningErrorReported ==
    (/\ ValidRow("create")
     /\ AllCallsOk
     /\ \E k \in 1..Len(last.http) : ~last.http[k].ok)
    => /\ last.result = <<"ERROR", ": Could not provision storage for the user">>
       /\ buildDN(last.row.username) \in DOMAIN dir
       /\ Calls("delete") = {}

\* C5: when a mutation call of an action fails (add, modify, rename, delete),
\* the result of the action is an error and the action issues no mutation call
\* after the failed one (so it does not retry it either).
C5_FailedMutationEndsAction ==
    \A i \in MutationCalls :
       ~last.calls[i].ok
       => /\ IsError(last.result)
          /\ \A j \in MutationCalls : j <= i

\* C6, as the spec states it: an update whose username and newusername are of
\* different user types is rejected with the "different OUs" error and makes
\* no directory call of any kind.
C6_NoDirectoryContact ==
    (/\ ValidRow("update")
     /\ getUserType(last.row.username) # getUserType(last.row.newusername))
    => /\ last.result = <<"ERROR", ": can't rename users across different OUs">>
       /\ last.calls = << >>

\* C6, amended: an update whose username and newusername are of different user
\* types never succeeds, issues no mutation call (add, modify, rename, delete)
\* and sends no mail; it binds and searches for the user first, and when both
\* succeed and the user exists the result is the "different OUs" error and
\* these two calls are the only ones.
C6_NoMutationAcrossTypes ==
    (/\ ValidRow("update")
     /\ getUserType(last.row.username) # getUserType(last.row.newusername))
    => /\ ~IsSuccess(last.result)
       /\ MutationCalls = {}
       /\ last.mails = << >>
       /\ UsernameFound
          => /\ last.result = <<"ERROR", ": can't rename users across different OUs">>
             /\ Len(last.calls) = 2

C6_Witness ==
    /\ ValidRow("update")
    /\ getUserType(last.row.username) = "EMP"
    /\ getUserType(last.row.newusername) = "STU"
    /\ UsernameFound
    /\ last.result = <<"ERROR", ": can't rename users across different OUs">>

\* the row in hand renames the user that the row before it created, to a name
\* of the same user type that has no entry, and all its directory calls succeed
RenameOfCreated ==
    /\ ValidRow("update")
    /\ created # EMPTY
    /\ last.row.username = created
    /\ last.row.newusername # last.row.username
    /\ getUserType(last.row.newusername) = getUserType(last.row.username)
    /\ AllCallsOk
    /\ Len(last.calls) >= 3
    /\ last.calls[3].op = "search" /\ last.calls[3].hits = 0

\* C7: an update that follows the successful create of u and renames u to v, of
\* the same user type and without an entry, with every directory call
\* succeeding, returns success and issues exactly one rename call, exactly one
\* add of v to memberUid, exactly one delete of u from memberUid, no other
\* change of memberUid, and exactly one mail.
C7_RenameAfterCreate ==
    RenameOfCreated
    => /\ IsSuccess(last.result)
       /\ Cardinality(Calls("rename")) = 1
       /\ Cardinality(ModifiesOf("ADD", "memberUid", last.row.newusername)) = 1
       /\ Cardinality(ModifiesOf("DELETE", "memberUid", last.row.username)) = 1
       /\ Cardinality(ModifiesAttr("ADD", "memberUid")) = 1
       /\ Cardinality(ModifiesAttr("DELETE", "memberUid")) = 1
       /\ Len(last.mails) = 1

C7_Witness ==
    /\ RenameOfCreated
    /\ last.row.username = bob
    /\ last.row.newusername = amy
    /\ IsSuccess(last.result)
    /\ buildDN(amy) \in DOMAIN dir
    /\ buildDN(bob) \notin DOMAIN dir

\* C8: an action that binds a connection unbinds it before it returns, whatever
\* the path: no connection is left bound by the row in hand or by a row before.
C8_SessionsReleased == sessions = 0 /\ Unreleased(last.calls) = 0

\* C9: a create row with every field given, for an employee username without
\* an entry and a department that is not in the department table, with every
\* directory call succeeding, does not fail: the entry is added, it joins the
\* GeneralMac and GeneralWS groups of the employees and no other, and the
\* result is success.
C9_UnknownDepartmentCreate ==
    (/\ ValidRow("create")
     /\ getUserType(last.row.username) = "EMP"
     /\ lookupGroup(last.row.primO) = EMPTY
     /\ UsernameFree
     /\ AllCallsOk)
    => /\ ~last.crashed
       /\ IsSuccess(last.result)
       /\ Cardinality(Calls("add")) = 1
       /\ GroupsJoined = { <<"cn=">> \o EmpGeneralMacUsers \o GeneralMacUsersOU,
                           <<"cn=">> \o EmpGeneralWSUsers \o GeneralMacUsersOU }

\* C10: a create row with every field given, for a guest username without an
\* entry, with every directory call succeeding, adds the entry without the
\* ndsHomeDirectory attribute, joins the guest GeneralMac group and no other,
\* makes no storage request and returns success.
C10_GuestCreate ==
    (/\ ValidRow("create")
     /\ getUserType(last.row.username) = "GST"
     /\ UsernameFree
     /\ AllCallsOk)
    => /\ ~last.crashed
       /\ IsSuccess(last.result)
       /\ Cardinality(Calls("add")) = 1
       /\ \A i \in Calls("add") : ~AddHasAttr(i, "ndsHomeDirectory")
       /\ GroupsJoined = { <<"cn=">> \o GuestGeneralMacUsers \o GeneralMacUsersOU }
       /\ last.http = << >>

\* the row in hand is an update that asks for a rename
Renaming == last.row.action = "update" /\ last.row.newusername # last.row.username

\* C11, as the spec states it: a renaming update that succeeds and a delete
\* that succeeds dispatch exactly one notification; create, archive, an update
\* that keeps the username and every action that returns an error dispatch none.
C11_NoMailOnError ==
    /\ (Renaming /\ IsSuccess(last.result)) => Len(last.mails) = 1
    /\ (last.row.action = "delete" /\ IsSuccess(last.result)) => Len(last.mails) = 1
    /\ (\/ last.row.action \in {"create", "archive"}
        \/ (last.row.action = "update" /\ ~Renaming)
        \/ IsError(last.result))
       => last.mails = << >>

\* C11, amended: as above, except that a renaming update that returns an error
\* may have dispatched its one notification, and then the error is the one of
\* the attribute update that follows the rename block; every other action that
\* returns an error, and every action that an exception ends, dispatches none.
C11_MailAfterRenameBlock ==
    /\ Len(last.mails) <= 1
    /\ (Renaming /\ IsSuccess(last.result)) => Len(last.mails) = 1
    /\ (last.row.action = "delete" /\ IsSuccess(last.result)) => Len(last.mails) = 1
    /\ (\/ last.row.action \notin {"update", "delete"}
        \/ (last.row.action = "update" /\ ~Renaming)
        \/ (last.row.action = "delete" /\ IsError(last.result))
        \/ last.crashed)
       => last.mails = << >>
    /\ (Renaming /\ IsError(last.result) /\ last.mails # << >>)
       => last.result = <<"ERROR", ": Could not update eDir user">>

\* a rename that went through, its notification, and then a failed attribute update
C11_Witness ==
    /\ Renaming
    /\ \E i \in Calls("rename") : last.calls[i].ok
    /\ Len(last.mails) = 1
    /\ last.result = <<"ERROR", ": Could not update eDir user">>

\* an entry of directory d carries the username as a cn value
UserExists(d, username) ==
    \E dn \in DOMAIN d : username \in AttrOf(d[dn], "cn")

\* the step in which main handles a row of the given action with all the
\* fields its handler uses
Handles(action) ==
    /\ last = NoLast
    /\ last' # NoLast
    /\ last'.row.action = action
    /\ EmptyParams(UsedParams(last'.row)) = {}

\* C12: a create for a username that has an entry issues no add, no modify and
\* no storage request and leaves the directory (the entry, every group) as it
\* was; when its bind and its search succeed the result is "username already
\* taken".
C12_ExistingUserCreate ==
    [][ (Handles("create") /\ UserExists(dir, last'.row.username))
        => /\ dir' = dir
           /\ \A i \in 1..Len(last'.calls) :
                 last'.calls[i].op \in {"bind", "search"}
           /\ last'.http = << >>
           /\ ~IsSuccess(last'.result)
           /\ (\A i \in 1..Len(last'.calls) : last'.calls[i].ok)
              => last'.result = <<"ERROR", ": username already taken!">> ]_vars

C12_Witness ==
    /\ ValidRow("create")
    /\ UsernameFound
    /\ UserExists(dir, last.row.username)
    /\ last.result = <<"ERROR", ": username already taken!">>
    /\ Len(last.calls) = 2

\* the values of the role attribute of the entries of directory d named username
RolesOf(d, username) ==
    UNION {AttrOf(d[dn], "businessCategory") :
              dn \in {x \in DOMAIN d : username \in AttrOf(d[x], "cn")}}

\* C13: after an update that returns success the role attribute of the entry
\* (now named newusername) holds the values it had before that do not contain
\* the role-marker pattern, and the role value of the request: the values with
\* the pattern were deleted, the new one was added, the others were kept.
C13_RoleValuesReplaced ==
    [][ (Handles("update") /\ IsSuccess(last'.result))
        => RolesOf(dir', last'.row.newusername)
           = {v \in RolesOf(dir, last'.row.username) : ~Contains(ARUBAPATTERN, v)}
             \cup {last'.row.businessCategory} ]_vars

\* an entry of directory d named username has the disabled flag set
DisabledIn(d, username) ==
    \E dn \in DOMAIN d : /\ username \in AttrOf(d[dn], "cn")
                         /\ <<"TRUE">> \in AttrOf(d[dn], "loginDisabled")

\* C14: an archive of a user that has an entry whose disabled flag is not set
\* issues no rename call and leaves the directory as it was; when its bind and
\* its searches succeed the result is "user is not disabled".
C14_ArchiveOfEnabledUser ==
    [][ (/\ Handles("archive")
         /\ UserExists(dir, last'.row.username)
         /\ ~DisabledIn(dir, last'.row.username))
        => /\ \A i \in 1..Len(last'.calls) : last'.calls[i].op # "rename"
           /\ dir' = dir
           /\ ~IsSuccess(last'.result)
           /\ (\A i \in 1..Len(last'.calls) : last'.calls[i].ok)
              => last'.result = <<"ERROR", ": user is not disabled!">> ]_vars

C14_Witness ==
    /\ ValidRow("archive")
    /\ UsernameFound
    /\ UserExists(dir, last.row.username)
    /\ ~DisabledIn(dir, last.row.username)
    /\ Len(last.calls) = 3
    /\ AllCallsOk
    /\ last.result = <<"ERROR", ": user is not disabled!">>

\* C15: an archive of a guest username never returns success and never issues
\* a rename call, whether the guest has an entry or not and whatever its
\* disabled flag; the directory is left as it was.
C15_GuestsNeverArchived ==
    [][ (Handles("archive") /\ GSTPATTERN = DropLast4(last'.row.username))
        => /\ ~IsSuccess(last'.result)
           /\ \A i \in 1..Len(last'.calls) : last'.calls[i].op # "rename"
           /\ dir' = dir ]_vars

\* a disabled guest: the precondition checks pass and the policy refuses
C15_Witness ==
    /\ ValidRow("archive")
    /\ getUserType(last.row.username) = "GST"
    /\ DisabledIn(dir, last.row.username)
    /\ AllCallsOk
    /\ last.result = <<"ERROR", ": we do not archive guest accounts">>

\* the row handled in this step issues no add, modify, rename or delete call
\* and the directory is left as it was
NoMutationStep ==
    /\ \A i \in 1..Len(last'.calls) :
          last'.calls[i].op \notin {"add", "modify", "rename", "delete"}
    /\ dir' = dir

\* every call of the row handled in this step succeeded
AllCallsOkStep == \A i \in 1..Len(last'.calls) : last'.calls[i].ok

\* C16: a delete of a username that has no entry issues no mutation call and
\* no notification and never returns success; when its bind and its search
\* succeed the result is "user could not be found".
C16_DeleteOfMissingUser ==
    [][ (Handles("delete") /\ ~UserExists(dir, last'.row.username))
        => /\ NoMutationStep
           /\ last'.mails = << >>
           /\ ~IsSuccess(last'.result)
           /\ AllCallsOkStep
              => last'.result = <<"ERROR", ": user could not be found!">> ]_vars

C16_Witness ==
    /\ ValidRow("delete")
    /\ UsernameFree
    /\ ~UserExists(dir, last.row.username)
    /\ Len(last.calls) = 2
    /\ last.mails = << >>
    /\ last.result = <<"ERROR", ": user could not be found!">>

\* the row handled in this step is an update or a delete whose precondition
\* does not hold in the directory: an update of a user without an entry, a
\* rename to a username that has an entry, a delete of a user not disabled
PreconditionFails ==
    \/ /\ Handles("update")
       /\ ~UserExists(dir, last'.row.username)
    \/ /\ Handles("update")
       /\ last'.row.newusername # last'.row.username
       /\ UserExists(dir, last'.row.username)
       /\ UserExists(dir, last'.row.newusername)
    \/ /\ Handles("delete")
       /\ UserExists(dir, last'.row.username)
       /\ ~DisabledIn(dir, last'.row.username)

\* C17: an update or a delete whose precondition fails issues no add, modify,
\* rename or delete call, leaves the directory as it was and does not return
\* success; when all its calls succeed it returns an error.
C17_NoMutationWithoutPrecondition ==
    [][ PreconditionFails
        => /\ NoMutationStep
           /\ ~IsSuccess(last'.result)
           /\ AllCallsOkStep => IsError(last'.result) ]_vars

\* C18: a row whose action is none of create, update, archive and delete gets
\* the result "Unrecognized action", which is written to its record, and makes
\* no directory contact: no bind, no search, no mutation (and no storage
\* request and no mail).
C18_UnrecognizedAction ==
    (last # NoLast /\ last.row.action \notin {"create", "update", "archive", "delete"})
    => /\ last.result = <<"ERROR", ": Unrecognized action">>
       /\ last.record = <<last.row.action, last.row.username, last.result>>
       /\ last.calls = << >>
       /\ last.http = << >>
       /\ last.mails = << >>

\* an unrecognized action on a user that has a disabled entry, which a delete
\* would have removed
C18_Witness ==
    /\ last.row.action = "rename"
    /\ DisabledIn(dir, last.row.username)
    /\ last.result = <<"ERROR", ": Unrecognized action">>
    /\ last.calls = << >>

\* the first call of the row in hand is a bind that failed
BindFailed ==
    last.calls # << >> /\ last.calls[1].op = "bind" /\ ~last.calls[1].ok

\* C19: an action whose bind fails returns the "unable to connect" error,
\* issues no further call (no search, no mutation, no storage request, no
\* mail), has its record written and does not end the batch; that reason is
\* returned for a failed bind only, so it differs from the reason of every
\* precondition and mutation error; and the row that follows binds afresh and,
\* when that bind succeeds, goes on to its lookup.
C19_BindFailure ==
    /\ BindFailed
       => /\ last.result = <<"ERROR", ": unable to connect to LDAP server">>
          /\ Len(last.calls) = 1
          /\ last.http = << >>
          /\ last.mails = << >>
          /\ ~aborted
          /\ last.record = <<last.row.action, last.row.username, last.result>>
    /\ last.result = <<"ERROR", ": unable to connect to LDAP server">> => BindFailed
    /\ (/\ connectFailed
        /\ last.row.action \in {"create", "update", "archive", "delete"}
        /\ EmptyParams(UsedParams(last.row)) = {})
       => /\ last.calls # << >>
          /\ last.calls[1].op = "bind"
          /\ last.calls[1].ok
             => /\ Len(last.calls) >= 2
                /\ last.calls[2].op = "search"
                /\ last.calls[2].arg = <<"cn=">> \o last.row.username

\* after a row that could not connect, a create binds, adds its user and succeeds
C19_Witness ==
    /\ connectFailed
    /\ ValidRow("create")
    /\ AllCallsOk
    /\ Cardinality(Calls("add")) = 1
    /\ IsSuccess(last.result)
    /\ buildDN(last.row.username) \in DOMAIN dir

\* the one fault of a mail server that refuses the message
MailFault == {<<"smtp", 1>>}

\* C20: a notification that could not be sent never changes the result: the
\* action that dispatched it is not ended by an exception, a delete whose
\* notification failed returns success, and so does a renaming update whose
\* directory calls all succeeded; and at the head of the loop every delete and
\* every update would return the same result and leave the same directory with
\* a mail server that refuses the message as with one that takes it.
C20_SendFailureIgnored ==
    /\ (\E k \in 1..Len(last.mails) : ~last.mails[k].sent)
       => /\ ~last.crashed
          /\ last.row.action = "delete" => IsSuccess(last.result)
          /\ (Renaming /\ AllCallsOk) => IsSuccess(last.result)
    /\ last = NoLast
       => /\ \A u \in Usernames :
                \E a \in {delete(Context, {}, u)} :
                \E b \in {delete(Context, MailFault, u)} :
                   /\ b.result = a.result
                   /\ b.crashed = a.crashed
                   /\ b.c.dir = a.c.dir
                   /\ b.c.calls = a.c.calls
          /\ \A row \in Rows("update", Usernames) :
                \E a \in {update(Context, {}, "-", updateParams(row))} :
                \E b \in {update(Context, MailFault, "-", updateParams(row))} :
                   /\ b.result = a.result
                   /\ b.crashed = a.crashed
                   /\ b.c.dir = a.c.dir
                   /\ b.c.calls = a.c.calls

\* a delete that went through although its notification could not be sent
C20_Witness ==
    /\ last.row.action = "delete"
    /\ Len(last.mails) = 1
    /\ ~last.mails[1].sent
    /\ \E i \in Calls("delete") : last.calls[i].ok
    /\ buildDN(last.row.username) \notin DOMAIN dir
    /\ last.result = <<"SUCCESS", ": User deleted from eDir">>

\* a renaming update that went through although its notification could not be sent
C20_WitnessRename ==
    /\ Renaming
    /\ Len(last.mails) = 1
    /\ ~last.mails[1].sent
    /\ \E i \in Calls("rename") : last.calls[i].ok
    /\ last.result = <<"SUCCESS", ": User updated in eDir">>

\* a call of operation op succeeded and a mutation call after it failed
FailedAfter(op) ==
    \E i \in Calls(op) :
       /\ last.calls[i].ok
       /\ \E j \in MutationCalls : j > i /\ ~last.calls[j].ok

\* C21: an action in which a mutation fails after an earlier one was applied
\* returns an error and does not undo the earlier one: a create whose add
\* succeeded leaves the entry in place and issues no delete; an update whose
\* rename succeeded leaves the entry under the new name and issues no second
\* rename.
C21_ErrorWithoutRollback ==
    /\ (last.row.action = "create" /\ FailedAfter("add"))
       => /\ IsError(last.result)
          /\ buildDN(last.row.username) \in DOMAIN dir
          /\ Calls("delete") = {}
    /\ (last.row.action = "update" /\ FailedAfter("rename"))
       => /\ IsError(last.result)
          /\ buildDN(last.row.newusername) \in DOMAIN dir
          /\ buildDN(last.row.username) \notin DOMAIN dir
          /\ Cardinality(Calls("rename")) = 1

\* C22: an action that returns success has issued its defining mutation and the
\* directory has accepted it: the add for a create, the modify that replaces
\* the profile attributes for an update, the rename into the archival container
\* for an archive, the delete for a delete.
C22_SuccessMeansMutation ==
    IsSuccess(last.result)
    => /\ last.row.action = "create"
          => \E i \in Calls("add") : last.calls[i].ok
       /\ last.row.action = "update"
          => \E i \in ModifiesAttr("REPLACE", "description") : last.calls[i].ok
       /\ last.row.action = "archive"
          => \E i \in Calls("rename") :
                /\ last.calls[i].ok
                /\ last.calls[i].sup \in {<<"ou=_Archive">> \o STUDENTOU,
                                          <<"ou=_Archive">> \o EMPOU}
       /\ last.row.action = "delete"
          => \E i \in Calls("delete") : last.calls[i].ok

\* the directory after a logged call, replayed on directory d
ApplyCall(d, call) ==
    The({ IF ~call.ok THEN d
          ELSE IF call.op = "add" THEN add_s(c, {}, call.dn, call.mods).c.dir
          ELSE IF call.op = "modify" THEN modify_s(c, {}, call.dn, call.mods).c.dir
          ELSE IF call.op = "rename"
          THEN rename_s(c, {}, call.dn, call.arg, call.sup).c.dir
          ELSE IF call.op = "delete" THEN delete_s(c, {}, call.dn).c.dir
          ELSE d
          : c \in {[dir |-> d, calls |-> << >>, http |-> << >>, mails |-> << >>]} })

\* the directory after the first k calls of a call log, starting from d
RECURSIVE Replay(_, _, _)
Replay(d, calls, k) ==
    IF k = 0 THEN d
    ELSE The({ ApplyCall(x, calls[k]) : x \in {Replay(d, calls, k - 1)} })

\* the memberUid values of the GeneralMac_Users group of a username in d
LegacyMembers(d, username) ==
    AttrOf(d[<<"cn=">> \o GeneralMacGroupName(getUserType(username))
             \o GeneralMacUsersOU], "memberUid")

\* the indexes in a call log of the modify calls that apply op to attr
ModifiesIn(calls, op, attr) ==
    {i \in 1..Len(calls) :
        /\ calls[i].op = "modify"
        /\ \E k \in 1..Len(calls[i].mods) :
              calls[i].mods[k].op = op /\ calls[i].mods[k].attr = attr}

\* the steps of a call log and a mail log come in the order: rename, memberUid
\* add, memberUid delete, mail, role value deletes, profile replace
RenameOrder(calls, mails) ==
    LET ren == {i \in 1..Len(calls) : calls[i].op = "rename"}
        add == ModifiesIn(calls, "ADD", "memberUid")
        del == ModifiesIn(calls, "DELETE", "memberUid")
        sent == {mails[k].after : k \in 1..Len(mails)}
        roles == ModifiesIn(calls, "DELETE", "businessCategory")
        repl == ModifiesIn(calls, "REPLACE", "description")
    IN  /\ \A i \in ren : \A j \in add \cup del \cup roles \cup repl : i < j
        /\ \A i \in add : \A j \in del \cup roles \cup repl : i < j
        /\ \A i \in del : \A j \in roles \cup repl : i < j
        /\ \A i \in roles : \A j \in repl : i < j
        /\ \A i \in ren \cup add \cup del : \A m \in sent : i <= m
        /\ \A m \in sent : \A j \in roles \cup repl : m < j

\* C23: a renaming update issues its steps in the order rename, add of the new
\* username to memberUid, removal of the old one, notification, deletion of the
\* role values, replacement of the profile attributes, and when every call
\* succeeds on a free new name all of them are issued, each once; for a user
\* whose name is in the memberUid values of its group, after each call of the
\* update the old or the new name is among them.
C23_RenameStepOrder ==
    [][ (/\ Handles("update")
         /\ last'.row.newusername # last'.row.username
         /\ getUserType(last'.row.newusername) = getUserType(last'.row.username))
        => /\ RenameOrder(last'.calls, last'.mails)
           /\ Replay(dir, last'.calls, Len(last'.calls)) = dir'
           /\ (/\ AllCallsOkStep
               /\ UserExists(dir, last'.row.username)
               /\ ~UserExists(dir, last'.row.newusername)
               /\ last'.row.username \in LegacyMembers(dir, last'.row.username)
               /\ buildDN(last'.row.username) \in DOMAIN dir)
              => /\ Cardinality({i \in 1..Len(last'.calls) :
                                    last'.calls[i].op = "rename"}) = 1
                 /\ Cardinality(ModifiesIn(last'.calls, "ADD", "memberUid")) = 1
                 /\ Cardinality(ModifiesIn(last'.calls, "DELETE", "memberUid")) = 1
                 /\ Len(last'.mails) = 1
                 /\ Cardinality(ModifiesIn(last'.calls, "REPLACE", "description")) = 1
           /\ last'.row.username \in LegacyMembers(dir, last'.row.username)
              => \A k \in 0..Len(last'.calls) :
                    LegacyMembers(Replay(dir, last'.calls, k), last'.row.username)
                    \cap {last'.row.username, last'.row.newusername} # {} ]_vars

\* a complete rename: every step was issued and accepted
C23_Witness ==
    /\ Renaming
    /\ AllCallsOk
    /\ IsSuccess(last.result)
    /\ Calls("rename") # {}
    /\ ModifiesOf("ADD", "memberUid", last.row.newusername) # {}
    /\ ModifiesOf("DELETE", "memberUid", last.row.username) # {}
    /\ ModifiesAttr("DELETE", "businessCategory") # {}
    /\ ModifiesAttr("REPLACE", "description") # {}
    /\ Len(last.mails) = 1
    /\ last.row.newusername \in LegacyMembers(dir, last.row.newusername)
    /\ last.row.username \notin LegacyMembers(dir, last.row.newusername)

\* the DNs at which the tool keeps the entry of a username: the container of
\* its user type and, for students and employees, its archival container
HomeDNs(username) ==
    {buildDN(username)}
    \cup (IF getUserType(username) = "STU"
          THEN {<<"cn=">> \o username \o <<",", "ou=_Archive">> \o STUDENTOU}
          ELSE IF getUserType(username) = "EMP"
          THEN {<<"cn=">> \o username \o <<",", "ou=_Archive">> \o EMPOU}
          ELSE {})

\* in directory d a username is a memberUid value of the group of its user type
\* exactly when it has an entry
LegacyConsistent(d) ==
    \A u \in Usernames :
       u \in LegacyMembers(d, u) <=> HomeDNs(u) \cap DOMAIN d # {}

\* C24: from a directory in which a username is a memberUid value of its group
\* exactly when it has an entry (live or archived), a row whose directory calls
\* all succeed leads to a directory in which this holds again; so it holds
\* after any sequence of such rows.
C24_LegacyMembersFollowEntries ==
    [][ (last' # NoLast /\ LegacyConsistent(dir) /\ AllCallsOkStep)
        => LegacyConsistent(dir') ]_vars

\* a delete that removed the entry and the memberUid value
C24_Witness ==
    /\ last.row.action = "delete"
    /\ AllCallsOk
    /\ IsSuccess(last.result)
    /\ ModifiesOf("DELETE", "memberUid", last.row.username) # {}
    /\ HomeDNs(last.row.username) \cap DOMAIN dir = {}
    /\ last.row.username \notin LegacyMembers(dir, last.row.username)
    /\ LegacyConsistent(dir)

\* the DN of the entry of a student or an employee once archive has moved it
ArchiveDN(username) ==
    <<"cn=">> \o username \o <<",">>
    \o (IF getUserType(username) = "STU" THEN <<"ou=_Archive">> \o STUDENTOU
        ELSE <<"ou=_Archive">> \o EMPOU)

\* the usernames that have an entry in an archival container of directory d
ArchivedIn(d) == {u \in Usernames : ArchiveDN(u) \in DOMAIN d}

\* a row leaves the archived entry of u and the memberUid values of its group
\* as they were
ArchivedKept(u) ==
    /\ ArchiveDN(u) \in DOMAIN dir'
    /\ dir'[ArchiveDN(u)] = dir[ArchiveDN(u)]
    /\ LegacyMembers(dir', u) = LegacyMembers(dir, u)

\* C25: once archive has moved the entry of a username, an update, archive or
\* delete of that username returns an error and leaves the archived entry and
\* the memberUid values of its group unchanged, and a create of, or a rename
\* to, that username leaves them unchanged too and, when its calls succeed, is
\* rejected as already taken.
C25_ArchivedEntryKept ==
    [][ \A u \in ArchivedIn(dir) :
          /\ (/\ \E a \in {"update", "archive", "delete"} : Handles(a)
              /\ last'.row.username = u)
             => /\ ArchivedKept(u)
                /\ IsError(last'.result)
          /\ (Handles("create") /\ last'.row.username = u)
             => /\ ArchivedKept(u)
                /\ AllCallsOkStep
                   => last'.result = <<"ERROR", ": username already taken!">>
          /\ (/\ Handles("update")
              /\ last'.row.newusername = u
              /\ last'.row.username # u
              /\ getUserType(last'.row.username) = getUserType(u)
              /\ UserExists(dir, last'.row.username))
             => /\ ArchivedKept(u)
                /\ AllCallsOkStep
                   => last'.result = <<"ERROR", ": username already taken!">> ]_vars

\* C26: a successful archive issues exactly one rename call, which moves the
\* entry of the user, under the same name and with the same attributes, from
\* its container to the archival container of its user type (student or
\* employee); and in every reachable state every entry in an archival
\* container is disabled.
C26_ArchiveMovesEntry ==
    /\ [](\A u \in ArchivedIn(dir) :
             AttrOf(dir[ArchiveDN(u)], "loginDisabled") = {<<"TRUE">>})
    /\ [][ (Handles("archive") /\ IsSuccess(last'.result))
           => /\ getUserType(last'.row.username) \in {"STU", "EMP"}
              /\ \E i \in 1..Len(last'.calls) :
                    /\ last'.calls[i].op = "rename"
                    /\ last'.calls[i].ok
                    /\ last'.calls[i].dn = buildDN(last'.row.username)
                    /\ last'.calls[i].arg = <<"cn=">> \o last'.row.username
                    /\ <<"cn=">> \o last'.row.username \o <<",">> \o last'.calls[i].sup
                       = ArchiveDN(last'.row.username)
                    /\ \A j \in 1..Len(last'.calls) :
                          last'.calls[j].op \in {"add", "modify", "rename", "delete"}
                          => j = i
              /\ buildDN(last'.row.username) \in DOMAIN dir
              /\ DOMAIN dir' = (DOMAIN dir \ {buildDN(last'.row.username)})
                               \cup {ArchiveDN(last'.row.username)}
              /\ dir'[ArchiveDN(last'.row.username)] = dir[buildDN(last'.row.username)]
              /\ \A dn \in DOMAIN dir \ {buildDN(last'.row.username)} :
                    dir'[dn] = dir[dn] ]_vars

\* a disabled student moved to the archival container of the students
C26_Witness ==
    /\ last.row.action = "archive"
    /\ getUserType(last.row.username) = "STU"
    /\ IsSuccess(last.result)
    /\ Cardinality(Calls("rename")) = 1
    /\ ArchiveDN(last.row.username) = <<"cn=">> \o last.row.username
                                      \o <<",", "ou=_Archive">> \o STUDENTOU
    /\ ArchiveDN(last.row.username) \in DOMAIN dir
    /\ buildDN(last.row.username) \notin DOMAIN dir
    /\ DisabledIn(dir, last.row.username)

\* sequence s is an initial part of sequence t
IsPrefix(s, t) == Len(s) <= Len(t) /\ SubSeq(t, 1, Len(s)) = s

\* a logged call is the group-side modify of a group: it adds a member
IsMemberAdd(call) ==
    /\ call.op = "modify"
    /\ \E k \in 1..Len(call.mods) :
          call.mods[k].op = "ADD" /\ call.mods[k].attr = "member"

\* the groups of a user type and a department in the order of the claim:
\* GeneralMac_Users group, workstation group, departmental group
GroupOrder(userType, ou) ==
    IF userType = "STU"
    THEN << <<"cn=", "Stu_GeneralMac_Users", ",", "ou=Resources", ",", "o=DA">> >>
    ELSE IF userType = "GST"
    THEN << <<"cn=", "Guest_GeneralMac_Users", ",", "ou=Resources", ",", "o=DA">> >>
    ELSE << <<"cn=", "Emp_GeneralMac_Users", ",", "ou=Resources", ",", "o=DA">>,
            <<"cn=", "Emp_GeneralWS_Users", ",", "ou=Resources", ",", "o=DA">> >>
         \o (IF lookupGroup(ou) = EMPTY THEN << >> ELSE << lookupGroup(ou) >>)

\* C27: in a create no modify is issued before the add has succeeded; the
\* group-side modifies go to the GeneralMac_Users group, the workstation group
\* and the departmental group in that order; the call just before the
\* group-side modify of a group is the entry-side modify that adds that group
\* to securityEquals and groupMembership; and the memberUid add on the
\* GeneralMac_Users group comes after every other modify.
C27_CreateGroupOrder ==
    last.row.action = "create"
    => /\ \A i \in Calls("modify") : \E j \in Calls("add") : j < i /\ last.calls[j].ok
       /\ \E joined \in {SelectSeq(last.calls, IsMemberAdd)} :
             IsPrefix([k \in 1..Len(joined) |-> joined[k].dn],
                      GroupOrder(getUserType(last.row.username), last.row.primO))
       /\ \A i \in ModifiesAttr("ADD", "member") :
             /\ i - 1 \in ModifiesOf("ADD", "securityEquals", last.calls[i].dn)
             /\ i - 1 \in ModifiesOf("ADD", "groupMembership", last.calls[i].dn)
             /\ last.calls[i - 1].ok
             /\ last.calls[i - 1].dn = buildDN(last.row.username)
       /\ \A i \in ModifiesAttr("ADD", "securityEquals") :
             last.calls[i].ok => i + 1 \in ModifiesAttr("ADD", "member")
       /\ \A i \in ModifiesAttr("ADD", "memberUid") :
             /\ last.calls[i].dn
                = Head(GroupOrder(getUserType(last.row.username), last.row.primO))
             /\ \A j \in Calls("modify") : j <= i
             /\ Cardinality(ModifiesAttr("ADD", "member"))
                = Len(GroupOrder(getUserType(last.row.username), last.row.primO))

\* an employee with a departmental group joined to its three groups
C27_Witness ==
    /\ last.row.action = "create"
    /\ AllCallsOk
    /\ IsSuccess(last.result)
    /\ Cardinality(ModifiesAttr("ADD", "member")) = 3
    /\ Cardinality(ModifiesAttr("ADD", "securityEquals")) = 3
    /\ Cardinality(ModifiesAttr("ADD", "memberUid")) = 1
    /\ Cardinality(GroupsJoined) = 3

\* the row handled in this step is a delete of a disabled user or a rename of a
\* user to a free name of the same user type, and the entry is in its container
RemovesLegacyValue ==
    /\ buildDN(last'.row.username) \in DOMAIN dir
    /\ \/ /\ Handles("delete")
          /\ DisabledIn(dir, last'.row.username)
       \/ /\ Handles("update")
          /\ last'.row.newusername # last'.row.username
          /\ getUserType(last'.row.newusername) = getUserType(last'.row.username)
          /\ ~UserExists(dir, last'.row.newusername)

\* C28: when the memberUid values of the GeneralMac_Users group do not hold the
\* (old) username, a delete and a renaming update issue no modify that deletes
\* a memberUid value, and when all their calls succeed they return success.
C28_NoLegacyValueNoDelete ==
    [][ (/\ RemovesLegacyValue
         /\ last'.row.username \notin LegacyMembers(dir, last'.row.username))
        => /\ ModifiesIn(last'.calls, "DELETE", "memberUid") = {}
           /\ AllCallsOkStep => IsSuccess(last'.result) ]_vars

\* a delete that went through the removal step and found other values only
C28_Witness ==
    /\ last.row.action = "delete"
    /\ AllCallsOk
    /\ IsSuccess(last.result)
    /\ Cardinality(Calls("search")) = 3
    /\ ModifiesAttr("DELETE", "memberUid") = {}
    /\ LegacyMembers(dir, last.row.username) # {}
    /\ last.row.username \notin LegacyMembers(dir, last.row.username)

\* a rename that went through the removal step and did not find the old name
C28_WitnessRename ==
    /\ Renaming
    /\ AllCallsOk
    /\ IsSuccess(last.result)
    /\ \E i \in Calls("rename") : last.calls[i].ok
    /\ ModifiesOf("ADD", "memberUid", last.row.newusername) # {}
    /\ ModifiesAttr("DELETE", "memberUid") = {}

\* the attributes an update has to leave alone: the password, the object
\* classes, the member references of a group and the group attributes of a user
KeptByUpdate ==
    {"userPassword", "objectclass", "member", "equivalentToMe",
     "groupMembership", "securityEquals"}

\* the DN under which the entry at dn is found after the row handled in this step
DNAfter(dn) ==
    IF /\ dn = buildDN(last'.row.username)
       /\ \E i \in 1..Len(last'.calls) :
             last'.calls[i].op = "rename" /\ last'.calls[i].ok
    THEN buildDN(last'.row.newusername)
    ELSE dn

\* C29: an update changes neither the password nor the object classes of an
\* entry, nor the member references of a group, nor the group attributes of an
\* entry, whatever department it sets and whichever calls fail; and an update
\* whose newusername is the username issues no rename call and no modify of a
\* memberUid value.
C29_UpdateKeepsMembership ==
    [][ Handles("update")
        => /\ \A dn \in DOMAIN dir :
                 /\ DNAfter(dn) \in DOMAIN dir'
                 /\ \A attr \in KeptByUpdate :
                       AttrOf(dir'[DNAfter(dn)], attr) = AttrOf(dir[dn], attr)
           /\ Cardinality(DOMAIN dir') = Cardinality(DOMAIN dir)
           /\ \A i \in 1..Len(last'.calls) :
                 /\ last'.calls[i].op \notin {"add", "delete"}
                 /\ \A k \in 1..Len(last'.calls[i].mods) :
                       last'.calls[i].mods[k].attr \notin KeptByUpdate
           /\ last'.row.newusername = last'.row.username
              => /\ \A i \in 1..Len(last'.calls) : last'.calls[i].op # "rename"
                 /\ ModifiesIn(last'.calls, "ADD", "memberUid") = {}
                 /\ ModifiesIn(last'.calls, "DELETE", "memberUid") = {} ]_vars

\* an update under the same name that moved an employee to a department whose
\* group the entry is not a member of
C29_Witness ==
    /\ last.row.action = "update"
    /\ last.row.newusername = last.row.username
    /\ AllCallsOk
    /\ IsSuccess(last.result)
    /\ ModifiesAttr("REPLACE", "ou") # {}
    /\ buildDN(last.row.username) \in DOMAIN dir
    /\ AttrOf(dir[buildDN(last.row.username)], "ou") = {last.row.primO}
    /\ lookupGroup(last.row.primO) # EMPTY
    /\ AttrOf(dir[buildDN(last.row.username)], "groupMembership") # {}
    /\ lookupGroup(last.row.primO)
       \notin AttrOf(dir[buildDN(last.row.username)], "groupMembership")
    /\ AttrOf(dir[buildDN(last.row.username)], "userPassword") # {}
    /\ Calls("rename") = {}

\* the student pattern occurs in username u
HasStudentPattern(u) ==
    \E i \in 1..Len(u) :
       /\ i + Len(STUPATTERN) - 1 <= Len(u)
       /\ \A k \in 1..Len(STUPATTERN) : u[i + k - 1] = STUPATTERN[k]

\* username u without its last four characters is the guest pattern
HasGuestPattern(u) ==
    /\ Len(u) = Len(GSTPATTERN) + 4
    /\ \A k \in 1..Len(GSTPATTERN) : u[k] = GSTPATTERN[k]

\* the container of the entries of a user type
ContainerOf(userType) ==
    IF userType = "STU" THEN <<",", "ou=Students", ",", "o=DA">>
    ELSE IF userType = "GST" THEN <<",", "ou=Visitors", ",", "o=DA">>
    ELSE <<",", "ou=Employees", ",", "o=DA">>

\* C30: for every username getUserType returns one of the three user types,
\* fixed by the username: student when the student pattern occurs in it,
\* otherwise guest when the username without its last four characters is the
\* guest pattern, otherwise employee; a username that matches both rules is a
\* student; and the DN built for it is "cn=" + username + the container of
\* that user type.
C30_Classification ==
    /\ classified.userType # ""
       => /\ classified.userType \in {"STU", "GST", "EMP"}
          /\ classified.userType = "STU" <=> HasStudentPattern(classified.username)
          /\ classified.userType = "GST"
             <=> /\ ~HasStudentPattern(classified.username)
                 /\ HasGuestPattern(classified.username)
          /\ (HasStudentPattern(classified.username)
              /\ HasGuestPattern(classified.username))
             => classified.userType = "STU"
    /\ classified.dn # EMPTY
       => \E t \in {"STU", "GST", "EMP"} :
             /\ t = "STU" <=> HasStudentPattern(classified.username)
             /\ t = "GST" <=> /\ ~HasStudentPattern(classified.username)
                              /\ HasGuestPattern(classified.username)
             /\ classified.dn = <<"cn=">> \o classified.username \o ContainerOf(t)
             /\ classified.userType # "" => classified.userType = t

\* a username that matches the guest rule and holds the student pattern
C30_Witness ==
    /\ HasStudentPattern(classified.username)
    /\ HasGuestPattern(classified.username)
    /\ classified.userType = "STU"
    /\ classified.dn = <<"cn=">> \o classified.username \o STUDENTOU

=============================================================================
